---------------------------- MODULE Spec2Model ----------------------------
(***************************************************************************)
(* Model of src/ai_presentation.py: the linear run                        *)
(*   generate_slide_content -> create_presentation -> add_slides ->       *)
(*   share_presentation                                                    *)
(* against three remote services (completion, image search, presentation  *)
(* and file sharing).  Strings are sequences of characters, so that strip  *)
(* / split / join / startswith are computed as Python does.  An ASCII      *)
(* character is the one-character string of itself; a character outside    *)
(* ASCII is the string naming its code point, "U+00E9" for e-acute.        *)
(***************************************************************************)
EXTENDS Naturals, Integers, Sequences, FiniteSets, TLC

VARIABLES
    pc,                 \* position of the run in __main__ / add_slides
    slides_content,     \* raw text returned by generate_slide_content
    presentation_id,    \* identifier returned by create_presentation
    slides,             \* add_slides: blocks of the stripped text
    i,                  \* add_slides: number of blocks the loop has taken
    slide_title,        \* add_slides locals of the current iteration
    bullet_points,
    slide_id,
    get_page_elements,
    title_id,
    body_id,
    image_url,
    requests,           \* add_slides: the pending list of update operations
    response,           \* the search response fetch_image_url received last
    report,             \* what add_slides printed at its end
    calls,              \* remote calls issued so far, in order, with outcome
    rPresentation,      \* remote: the presentation that exists ("" if none)
    rSlides,            \* remote: identifiers of the slides created
    rApplied,           \* remote: text/image operations applied to the deck
    rPermissions,       \* remote: permissions granted on files
    processed,          \* history: one entry per slide the loop created
    pages,              \* history: the page elements read, one list per read
    origin              \* history: block and field each pending op came from

vars == <<pc, slides_content, presentation_id, slides, i, slide_title,
          bullet_points, slide_id, get_page_elements, title_id, body_id,
          image_url, requests, response, report, calls, rPresentation,
          rSlides, rApplied, rPermissions, processed, pages, origin>>

----------------------------------------------------------------------------
(* Bounds *)

MaxLen == 8

MaxElems == 2

----------------------------------------------------------------------------
(* Python string operations on sequences of characters *)

NL == "\n"

\* the whitespace str.strip() removes: the ASCII space, \n, \t, \r, \f,
\* U+000B, U+001C, U+001D, U+001E and U+001F (the last five written as
\* themselves), and the whitespace outside ASCII
Whitespace ==
    {" ", "\n", "\t", "\r", "\f", "", "", "", "", "",
     "U+0085", "U+00A0", "U+1680", "U+2000", "U+2001",
     "U+2002", "U+2003", "U+2004", "U+2005", "U+2006",
     "U+2007", "U+2008", "U+2009", "U+200A", "U+2028",
     "U+2029", "U+202F", "U+205F", "U+3000"}

RECURSIVE LStrip(_)
LStrip(s) ==
    IF s = <<>> THEN <<>>
    ELSE IF Head(s) \in Whitespace THEN LStrip(Tail(s)) ELSE s

RECURSIVE RStrip(_)
RStrip(s) ==
    IF s = <<>> THEN <<>>
    ELSE IF s[Len(s)] \in Whitespace THEN RStrip(SubSeq(s, 1, Len(s) - 1)) ELSE s

\* str.strip()
Strip(s) == RStrip(LStrip(s))

\* s.startswith(p)
StartsWith(s, p) == Len(s) >= Len(p) /\ SubSeq(s, 1, Len(p)) = p

\* s.find(sep) from position k on (1-based), 0 when absent
RECURSIVE Find(_, _, _)
Find(s, sep, k) ==
    IF k + Len(sep) - 1 > Len(s) THEN 0
    ELSE IF SubSeq(s, k, k + Len(sep) - 1) = sep THEN k
    ELSE Find(s, sep, k + 1)

\* s.split(sep) for a non-empty sep
RECURSIVE Split(_, _)
Split(s, sep) ==
    LET p == Find(s, sep, 1) IN
    IF p = 0 THEN <<s>>
    ELSE <<SubSeq(s, 1, p - 1)>> \o Split(SubSeq(s, p + Len(sep), Len(s)), sep)

\* s.split(sep, 1)[-1]
SplitOnceLast(s, sep) ==
    LET p == Find(s, sep, 1) IN
    IF p = 0 THEN s ELSE SubSeq(s, p + Len(sep), Len(s))

\* sep.join(parts)
RECURSIVE Join(_, _)
Join(parts, sep) ==
    IF parts = <<>> THEN <<>>
    ELSE IF Len(parts) = 1 THEN parts[1]
    ELSE parts[1] \o sep \o Join(Tail(parts), sep)

----------------------------------------------------------------------------
(* Values *)

NoneStr == <<"None">>          \* Python None where a string is expected

NoneId == <<0, 0>>             \* Python None where an object id is expected

HTTP_OK == 200

ErrorStatuses == {403}

HttpPrefix == <<"h", "t", "t", "p">>

HttpsLink == <<"h", "t", "t", "p", "s">>

FtpLink == <<"f", "t", "p">>

\* Python raising where a string is expected
Raises == <<"raise">>

\* A search response: the status, whether the body parses as JSON, whether
\* the object has "items", whether that is null, and the items; an item may
\* lack "link", and its link may be null (NoneStr).
Response(s, j, h, n, it) ==
    [status |-> s, json |-> j, has_items |-> h, items_null |-> n, items |-> it]

Item(l) == [has_link |-> TRUE, link |-> l]

ItemWithoutLink == [has_link |-> FALSE, link |-> NoneStr]

NoResponse == Response(0, FALSE, FALSE, FALSE, <<>>)

Bodies ==
    { <<FALSE, FALSE, FALSE, <<>>>>,
      <<TRUE, FALSE, FALSE, <<>>>>,
      <<TRUE, TRUE, TRUE, <<>>>>,
      <<TRUE, TRUE, FALSE, <<>>>>,
      <<TRUE, TRUE, FALSE, <<Item(HttpsLink)>>>>,
      <<TRUE, TRUE, FALSE, <<Item(FtpLink), Item(HttpsLink)>>>>,
      <<TRUE, TRUE, FALSE, <<ItemWithoutLink>>>>,
      <<TRUE, TRUE, FALSE, <<Item(NoneStr)>>>> }

\* the responses requests.get may return
Responses ==
    {Response(s, b[1], b[2], b[3], b[4]) : s \in {HTTP_OK} \cup ErrorStatuses, b \in Bodies}

NominalResponses == {Response(HTTP_OK, TRUE, TRUE, FALSE, <<Item(HttpsLink)>>)}

\* What the completion reply holds of what the code reads from it:
\* everything, not the keys the code indexes, or null content.
CompletionForms == {"complete", "incomplete", "null_content"}

\* the same for the replies whose identifier the code reads
ReplyForms == {"complete", "incomplete"}

NominalForms == {"complete"}

\* the completion reply: response["choices"][0]["message"]["content"]
CompletionReply(form, text) ==
    [has_content |-> form # "incomplete",
     content |-> IF form = "complete" THEN text ELSE NoneStr]

CompletionReplies(forms, texts) ==
    {CompletionReply(f, t) : f \in forms, t \in texts}

\* the create reply: presentation["presentationId"]
PresentationReply(form, id) ==
    [has_id |-> form = "complete", presentationId |-> id]

\* the create-slide reply: ["replies"][0]["createSlide"]["objectId"]
CreateSlideReply(form, id) ==
    [has_id |-> form = "complete", objectId |-> id]

ElemTypes == {"TITLE", "BODY", "NONE"}

\* One page element as the service describes it: whether it has "objectId"
\* and which (issued by the service, empty, null), what its "shape" is
\* (absent, null, with "placeholder" null, with a placeholder) and the
\* placeholder's type ("NONE": any other type, or none).
Elem(id, shape, type) == [id |-> id, shape |-> shape, type |-> type]

PlainElem(type) ==
    Elem("issued", IF type = "NONE" THEN "absent" ELSE "placeholder", type)

\* A page: "pageElements" absent, null, or a list of elements
Page(elements, list) == [elements |-> elements, list |-> list]

WellFormedPages ==
    {Page("list", l) :
        l \in UNION {[1..n -> {PlainElem(t) : t \in ElemTypes}] : n \in 0..MaxElems}}

OtherPages ==
    { Page("absent", <<>>),
      Page("null", <<>>),
      Page("list", <<Elem("empty", "placeholder", "TITLE"), PlainElem("BODY")>>),
      Page("list", <<Elem("null", "placeholder", "TITLE"), PlainElem("BODY")>>),
      Page("list", <<PlainElem("TITLE"), Elem("null", "placeholder", "BODY")>>),
      Page("list", <<PlainElem("TITLE"), Elem("empty", "placeholder", "BODY")>>),
      Page("list", <<PlainElem("TITLE"), Elem("absent", "absent", "NONE")>>),
      Page("list", <<Elem("absent", "placeholder", "TITLE")>>),
      Page("list", <<PlainElem("BODY"), Elem("issued", "null", "NONE")>>),
      Page("list", <<Elem("issued", "placeholder_null", "NONE")>>) }

\* the pages pages().get may return for a slide
PageElements == WellFormedPages \cup OtherPages

NominalPageElements == {Page("list", <<PlainElem("TITLE"), PlainElem("BODY")>>)}

\* the reply of pages().get for slide sid: element k of the slide has the
\* objectId <<sid, k>> when the service issued one
PageElement(e, sid, k) ==
    [has_id |-> e.id # "absent",
     objectId |-> CASE e.id = "issued" -> <<sid, k>>
                    [] e.id = "empty" -> <<>>
                    [] OTHER -> NoneId,
     shape |-> e.shape,
     type |-> e.type]

PageReply(page, sid) ==
    [has_elements |-> page.elements # "absent",
     elements_null |-> page.elements = "null",
     elements |-> [k \in 1..Len(page.list) |-> PageElement(page.list[k], sid, k)]]

NoPage == PageReply(Page("absent", <<>>), 0)

Alphabet == {"a", " ", "\n"}

\* texts with whitespace outside ASCII around the text and the title
UnicodeTexts ==
    { <<"U+2000", "a", "U+3000", "\n", "a", "U+00A0">>,
      <<"\t", "a", "\n", "a", "\n", "\n", "U+0085", "a", "\r", "\n", "U+00E9">> }

AllTexts == UNION {[1..n -> Alphabet] : n \in 0..MaxLen} \cup UnicodeTexts

TitleA == <<"S", ":", " ", "x">>

TitleB == <<"y", " ">>

BulletA == <<"-", "a">>

BulletB == <<"-", "b">>

RunTexts ==
    { <<>>,
      TitleB,
      Join(<<TitleA, BulletA>>, <<NL>>),
      Join(<<TitleB, <<>>, TitleA, BulletA, BulletB>>, <<NL>>),
      Join(<<TitleA, BulletA, <<>>, TitleB, BulletB>>, <<NL>>) }

PresentationIdOf == "p1"


Topic == "topic"

----------------------------------------------------------------------------
(* Pure parts of the code *)

\* fetch_image_url, on the response requests.get returned: the link, None,
\* or Raises where response.json(), len(data["items"]), ["link"] or
\* .startswith raises
FetchImageUrl(resp) ==
    IF resp.status = HTTP_OK
    THEN IF ~resp.json THEN Raises
         ELSE IF resp.has_items
         THEN IF resp.items_null THEN Raises
              ELSE IF Len(resp.items) > 0
              THEN IF ~resp.items[1].has_link THEN Raises
                   ELSE LET url == resp.items[1].link IN
                        IF url = NoneStr THEN Raises
                        ELSE IF ~StartsWith(url, HttpPrefix) THEN NoneStr
                        ELSE url
              ELSE NoneStr
         ELSE NoneStr
    ELSE NoneStr

Scanned(tid, bid, raises) == [title_id |-> tid, body_id |-> bid, raises |-> raises]

\* element.get("shape", {}).get("placeholder", {}).get("type")
PlaceholderType(e) == IF e.shape = "placeholder" THEN e.type ELSE "NONE"

\* the scan of the page elements: the ids the loop leaves in title_id and
\* body_id, and whether it raises on the way (element["objectId"] on an
\* element without one, .get on a null "shape" or "placeholder")
RECURSIVE ScanPlaceholders(_, _, _, _)
ScanPlaceholders(elems, k, tid, bid) ==
    IF k > Len(elems) THEN Scanned(tid, bid, FALSE)
    ELSE LET e == elems[k] IN
         IF ~e.has_id \/ e.shape \in {"null", "placeholder_null"}
         THEN Scanned(tid, bid, TRUE)
         ELSE IF PlaceholderType(e) = "TITLE"
         THEN ScanPlaceholders(elems, k + 1, e.objectId, bid)
         ELSE IF PlaceholderType(e) = "BODY"
         THEN ScanPlaceholders(elems, k + 1, tid, e.objectId)
         ELSE ScanPlaceholders(elems, k + 1, tid, bid)

\* title_id, body_id = None, None and the loop over
\* get_page_elements.get("pageElements", [])
ReadPlaceholders(reply) ==
    IF ~reply.has_elements THEN Scanned(NoneId, NoneId, FALSE)
    ELSE IF reply.elements_null THEN Scanned(NoneId, NoneId, TRUE)
    ELSE ScanPlaceholders(reply.elements, 1, NoneId, NoneId)

\* "if title_id:": None and the empty id are falsy
Truthy(id) == id # NoneId /\ id # <<>>

InsertText(id, text) == [op |-> "insertText", objectId |-> id, text |-> text]

CreateImage(url, page) == [op |-> "createImage", url |-> url, pageObjectId |-> page]

\* variant of TextRequests: the body test nested under the title test
TextRequestsNested(tid, bid, title, bullets) ==
    IF Truthy(tid)
    THEN <<InsertText(tid, title)>>
         \o (IF Truthy(bid) THEN <<InsertText(bid, bullets)>> ELSE <<>>)
    ELSE <<>>

\* variant of TextRequests: body appended before title
TextRequestsBodyFirst(tid, bid, title, bullets) ==
    (IF Truthy(bid) THEN <<InsertText(bid, bullets)>> ELSE <<>>)
    \o (IF Truthy(tid) THEN <<InsertText(tid, title)>> ELSE <<>>)

\* the text operations appended for one slide
TextRequests(tid, bid, title, bullets) ==
    (IF Truthy(tid) THEN <<InsertText(tid, title)>> ELSE <<>>)
    \o (IF Truthy(bid) THEN <<InsertText(bid, bullets)>> ELSE <<>>)

TextOrigins(tid, bid, blk) ==
    (IF Truthy(tid) THEN <<<<blk, "title">>>> ELSE <<>>)
    \o (IF Truthy(bid) THEN <<<<blk, "body">>>> ELSE <<>>)

\* whether the loop adds an image operation for this url
ImageAccepted(url) == url # NoneStr /\ url # <<>> /\ StartsWith(url, HttpPrefix)

\* the query add_slides hands to fetch_image_url
ImageQuery(title) == SplitOnceLast(title, <<":", " ">>)

\* the blocks add_slides iterates over
ParseSlides(text) == Split(Strip(text), <<NL, NL>>)

\* lines of one block
BlockLines(block) == Split(block, <<NL>>)

\* variant of MinLines: only empty blocks skipped
MinLinesOne == 2 - 1

\* a block with fewer lines than this is skipped
MinLines == 2

\* variant of SlideTitle: the first line as it is
SlideTitleUnstripped(lines) == lines[1]

SlideTitle(lines) == Strip(lines[1])

BulletPoints(lines) == Join(Tail(lines), <<NL>>)

Permission == [type |-> "anyone", role |-> "writer"]

Call(op, arg, outcome) == [op |-> op, arg |-> arg, outcome |-> outcome]

----------------------------------------------------------------------------
(* The run *)

Init ==
    /\ pc = "generate"
    /\ slides_content = <<>>
    /\ presentation_id = ""
    /\ slides = <<>>
    /\ i = 0
    /\ slide_title = <<>>
    /\ bullet_points = <<>>
    /\ slide_id = 0
    /\ get_page_elements = NoPage
    /\ title_id = NoneId
    /\ body_id = NoneId
    /\ image_url = NoneStr
    /\ requests = <<>>
    /\ response = NoResponse
    /\ report = "none"
    /\ calls = <<>>
    /\ rPresentation = ""
    /\ rSlides = <<>>
    /\ rApplied = <<>>
    /\ rPermissions = {}
    /\ processed = <<>>
    /\ pages = <<>>
    /\ origin = <<>>

\* variants of AfterRaise: the error swallowed and the run going on to
\* share, or the pending list committed on the way out
AfterRaiseSwallow == "share"

AfterRaiseFinally == "batch_update"

\* where the run goes when a remote call raises
AfterRaise == "crashed"

\* generate_slide_content: the completion call and the text read from its
\* reply; reading a reply without the content raises
GenerateSlideContent(replies) ==
    /\ pc = "generate"
    /\ \E reply \in replies :
        IF reply.has_content
        THEN /\ slides_content' = reply.content
             /\ calls' = Append(calls, Call("completion", Topic, "ok"))
             /\ pc' = "create_presentation"
        ELSE /\ calls' = Append(calls, Call("completion", Topic, "unreadable"))
             /\ pc' = AfterRaise
             /\ UNCHANGED slides_content
    /\ UNCHANGED <<presentation_id, slides, i, slide_title, bullet_points,
                   slide_id, get_page_elements, title_id, body_id,
                   image_url, requests, response, report, rPresentation,
                   rSlides, rApplied, rPermissions, processed, origin,
                   pages>>

\* create_presentation: the presentation exists once the call has returned;
\* reading a reply without "presentationId" raises
CreatePresentation(forms) ==
    /\ pc = "create_presentation"
    /\ rPresentation' = PresentationIdOf
    /\ \E form \in forms :
        LET reply == PresentationReply(form, rPresentation') IN
        IF reply.has_id
        THEN /\ presentation_id' = reply.presentationId
             /\ calls' = Append(calls, Call("create_presentation", Topic, "ok"))
             /\ pc' = "add_slides"
        ELSE /\ calls' = Append(calls, Call("create_presentation", Topic, "unreadable"))
             /\ pc' = AfterRaise
             /\ UNCHANGED presentation_id
    /\ UNCHANGED <<slides_content, slides, i, slide_title, bullet_points,
                   slide_id, get_page_elements, title_id, body_id,
                   image_url, requests, response, report, rSlides,
                   rApplied, rPermissions, processed, origin, pages>>

\* add_slides, up to the loop: the pending list and the blocks; .strip() on
\* a None text raises
AddSlidesBegin ==
    /\ pc = "add_slides"
    /\ requests' = <<>>
    /\ IF slides_content = NoneStr
       THEN pc' = AfterRaise /\ UNCHANGED <<slides, i>>
       ELSE /\ slides' = ParseSlides(slides_content)
            /\ i' = 0
            /\ pc' = "for"
    /\ UNCHANGED <<slides_content, presentation_id, slide_title,
                   bullet_points, slide_id, get_page_elements, title_id,
                   body_id, image_url, response, report, calls,
                   rPresentation, rSlides, rApplied, rPermissions,
                   processed, origin, pages>>

\* the loop takes the next block and skips it when it has fewer than 2 lines
ForSkip ==
    /\ pc = "for"
    /\ i < Len(slides)
    /\ Len(BlockLines(slides[i + 1])) < MinLines
    /\ i' = i + 1
    /\ UNCHANGED <<pc, slides_content, presentation_id, slides, slide_title,
                   bullet_points, slide_id, get_page_elements, title_id,
                   body_id, image_url, requests, response, report, calls,
                   rPresentation, rSlides, rApplied, rPermissions,
                   processed, origin, pages>>

\* the loop takes the next block and keeps it: title and bullet body
ForKeep ==
    /\ pc = "for"
    /\ i < Len(slides)
    /\ LET lines == BlockLines(slides[i + 1]) IN
        /\ ~(Len(lines) < MinLines)
        /\ slide_title' = SlideTitle(lines)
        /\ bullet_points' = BulletPoints(lines)
    /\ i' = i + 1
    /\ pc' = "create_slide"
    /\ UNCHANGED <<slides_content, presentation_id, slides, slide_id,
                   get_page_elements, title_id, body_id, image_url,
                   requests, response, report, calls, rPresentation,
                   rSlides, rApplied, rPermissions, processed, origin,
                   pages>>

\* variant of SlideIdFromReply: always the first slide's id
SlideIdFirst(reply) == [raises |-> FALSE, id |-> 1]

\* the slide id the loop reads from the create-slide reply
SlideIdFromReply(reply) == [raises |-> ~reply.has_id, id |-> reply.objectId]

\* the create-slide batchUpdate and the id of its reply: the slide exists
\* once the call has returned; reading a reply without the id raises
CreateSlide(forms) ==
    /\ pc = "create_slide"
    /\ LET newId == Len(rSlides) + 1 IN
        /\ rSlides' = Append(rSlides, newId)
        /\ processed' = Append(processed,
                [block |-> i, title |-> slide_title, body |-> bullet_points,
                 slide |-> newId])
        /\ \E form \in forms :
            LET read == SlideIdFromReply(CreateSlideReply(form, newId)) IN
            IF read.raises
            THEN /\ calls' = Append(calls, Call("create_slide", presentation_id,
                                 "unreadable"))
                 /\ pc' = AfterRaise
                 /\ UNCHANGED slide_id
            ELSE /\ slide_id' = read.id
                 /\ calls' = Append(calls, Call("create_slide", presentation_id, "ok"))
                 /\ pc' = "get_page"
    /\ UNCHANGED <<slides_content, presentation_id, slides, i, slide_title,
                   bullet_points, get_page_elements, title_id, body_id,
                   image_url, requests, response, report, rPresentation,
                   rApplied, rPermissions, origin, pages>>

\* the page-element read, the placeholder scan and the text operations; a
\* scan that raises ends the run with the ids it had assigned
ReadPageElements(pageforms) ==
    /\ pc = "get_page"
    /\ \E page \in pageforms :
        LET reply == PageReply(page, slide_id)
            ids == ReadPlaceholders(reply)
        IN
        /\ get_page_elements' = reply
        /\ pages' = Append(pages, reply)
        /\ title_id' = ids.title_id
        /\ body_id' = ids.body_id
        /\ IF ids.raises
           THEN /\ calls' = Append(calls, Call("get_page", slide_id, "unreadable"))
                /\ pc' = AfterRaise
                /\ UNCHANGED <<requests, origin>>
           ELSE /\ requests' = requests \o TextRequests(ids.title_id, ids.body_id,
                                                        slide_title, bullet_points)
                /\ origin' = origin \o TextOrigins(ids.title_id, ids.body_id, i)
                /\ calls' = Append(calls, Call("get_page", slide_id, "ok"))
                /\ pc' = "search"
    /\ UNCHANGED <<slides_content, presentation_id, slides, i, slide_title,
                   bullet_points, slide_id, image_url, response, report,
                   rPresentation, rSlides, rApplied, rPermissions,
                   processed>>

\* fetch_image_url on a received response, and the image operation; when
\* fetch_image_url raises on the response nothing catches it
FetchImage(resps) ==
    /\ pc = "search"
    /\ \E resp \in resps :
        LET url == FetchImageUrl(resp) IN
        /\ response' = resp
        /\ IF url = Raises
           THEN /\ calls' = Append(calls, Call("search", ImageQuery(slide_title),
                                "unreadable"))
                /\ pc' = AfterRaise
                /\ UNCHANGED <<image_url, requests, origin>>
           ELSE /\ image_url' = url
                /\ requests' = IF ImageAccepted(url)
                               THEN Append(requests, CreateImage(url, slide_id))
                               ELSE requests
                /\ origin' = IF ImageAccepted(url)
                             THEN Append(origin, <<i, "image">>)
                             ELSE origin
                /\ calls' = Append(calls, Call("search", ImageQuery(slide_title),
                                IF resp.status = HTTP_OK THEN "ok" ELSE "error_status"))
                /\ pc' = "for"
    /\ UNCHANGED <<slides_content, presentation_id, slides, i, slide_title,
                   bullet_points, slide_id, get_page_elements, title_id,
                   body_id, report, rPresentation, rSlides, rApplied,
                   rPermissions, processed, pages>>

\* variant of HasContent: the update is sent whatever the list holds
HasContentAlways(reqs) == TRUE

\* "if requests": whether there is anything to send
HasContent(reqs) == reqs # <<>>

\* after the loop: the decision to send
ForEnd ==
    /\ pc = "for"
    /\ ~(i < Len(slides))
    /\ IF HasContent(requests)
       THEN pc' = "batch_update" /\ report' = report
       ELSE pc' = "share" /\ report' = "no_content"
    /\ UNCHANGED <<slides_content, presentation_id, slides, i, slide_title,
                   bullet_points, slide_id, get_page_elements, title_id,
                   body_id, image_url, requests, response, calls,
                   rPresentation, rSlides, rApplied, rPermissions,
                   processed, origin, pages>>

\* the final batched update
BatchUpdate ==
    /\ pc = "batch_update"
    /\ rApplied' = rApplied \o requests
    /\ calls' = Append(calls, Call("batch_update", requests, "ok"))
    /\ report' = "slides_added"
    /\ pc' = "share"
    /\ UNCHANGED <<slides_content, presentation_id, slides, i, slide_title,
                   bullet_points, slide_id, get_page_elements, title_id,
                   body_id, image_url, requests, response, rPresentation,
                   rSlides, rPermissions, processed, origin, pages>>

\* variant of ShareTarget: the topic instead of the identifier
ShareTargetTopic == Topic

\* the file the permission is created on
ShareTarget == presentation_id

\* share_presentation
SharePresentation ==
    /\ pc = "share"
    /\ rPermissions' = rPermissions \cup {[file |-> ShareTarget, permission |-> Permission]}
    /\ calls' = Append(calls, Call("share", ShareTarget, "ok"))
    /\ pc' = "done"
    /\ UNCHANGED <<slides_content, presentation_id, slides, i, slide_title,
                   bullet_points, slide_id, get_page_elements, title_id,
                   body_id, image_url, requests, response, report,
                   rPresentation, rSlides, rApplied, processed, origin,
                   pages>>

CallSites == {"generate", "create_presentation", "create_slide", "get_page",
              "search", "batch_update", "share"}

OpAt(site) ==
    CASE site = "generate" -> "completion"
      [] site = "create_presentation" -> "create_presentation"
      [] site = "create_slide" -> "create_slide"
      [] site = "get_page" -> "get_page"
      [] site = "search" -> "search"
      [] site = "batch_update" -> "batch_update"
      [] site = "share" -> "share"

\* a remote call raises (transport failure, or an API error of a client that
\* raises on it): nothing catches it and the process ends
RemoteCallRaises ==
    /\ pc \in CallSites
    /\ calls' = Append(calls, Call(OpAt(pc), "raised", "raised"))
    /\ pc' = AfterRaise
    /\ UNCHANGED <<slides_content, presentation_id, slides, i, slide_title,
                   bullet_points, slide_id, get_page_elements, title_id,
                   body_id, image_url, requests, response, report,
                   rPresentation, rSlides, rApplied, rPermissions,
                   processed, origin, pages>>

Next ==
    \/ GenerateSlideContent(CompletionReplies(CompletionForms, RunTexts))
    \/ CreatePresentation(ReplyForms)
    \/ AddSlidesBegin
    \/ ForSkip
    \/ ForKeep
    \/ CreateSlide(ReplyForms)
    \/ ReadPageElements(PageElements)
    \/ FetchImage(Responses)
    \/ ForEnd
    \/ BatchUpdate
    \/ SharePresentation
    \/ RemoteCallRaises

Spec == Init /\ [][Next]_vars

\* The same run with every remote call succeeding with a complete reply,
\* nominal slide pages and search results, over every raw text of the
\* alphabet and the texts with whitespace outside ASCII.
NextParse ==
    \/ GenerateSlideContent(CompletionReplies(NominalForms, AllTexts))
    \/ CreatePresentation(NominalForms)
    \/ AddSlidesBegin
    \/ ForSkip
    \/ ForKeep
    \/ CreateSlide(NominalForms)
    \/ ReadPageElements(NominalPageElements)
    \/ FetchImage(NominalResponses)
    \/ ForEnd
    \/ BatchUpdate
    \/ SharePresentation

SpecParse == Init /\ [][NextParse]_vars

----------------------------------------------------------------------------
(* The raw text as the claims read it: lines, and blocks of lines separated *)
(* by blank lines, computed from the positions of the line breaks.          *)

Breaks(t) == {p \in 1..Len(t) : t[p] = NL}

NumLines(t) == Cardinality(Breaks(t)) + 1

KthBreak(t, k) ==
    LET B == Breaks(t) IN
    CHOOSE p \in B : Cardinality({q \in B : q <= p}) = k

LineStart(t, k) == IF k = 1 THEN 1 ELSE KthBreak(t, k - 1) + 1

LineEnd(t, k) == IF k = NumLines(t) THEN Len(t) ELSE KthBreak(t, k) - 1

Line(t, k) == SubSeq(t, LineStart(t, k), LineEnd(t, k))

EmptyLine(t, k) == LineEnd(t, k) < LineStart(t, k)

\* first line of the run of empty lines that ends at line k
RunStart(t, k) == CHOOSE a \in 1..k :
    /\ \A j \in a..k : EmptyLine(t, j)
    /\ (a = 1 \/ ~EmptyLine(t, a - 1))

\* line k is a blank line that separates two blocks (a double line break)
IsSeparator(t, k) ==
    /\ 1 < k
    /\ k < NumLines(t)
    /\ EmptyLine(t, k)
    /\ LET a == RunStart(t, k) IN
       IF a = 1 THEN (k - 1) % 2 = 1 ELSE (k - a) % 2 = 0

BlockStarts(t) ==
    LET n == NumLines(t)
        seps == {k \in 1..n : IsSeparator(t, k)}
    IN {k \in 1..n : k \notin seps /\ (k = 1 \/ (k - 1) \in seps)}

NumBlocks(t) == Cardinality(BlockStarts(t))

\* first and last line of the b-th block
BlockFirst(t, b) ==
    LET S == BlockStarts(t) IN
    CHOOSE k \in S : Cardinality({q \in S : q <= k}) = b

BlockLast(t, b) ==
    LET s == BlockFirst(t, b)
        later == {k \in s..NumLines(t) : IsSeparator(t, k)}
    IN IF later = {} THEN NumLines(t)
       ELSE (CHOOSE k \in later : \A q \in later : k <= q) - 1

BlockSize(t, b) == BlockLast(t, b) - BlockFirst(t, b) + 1

\* the block's remaining lines, joined by line breaks as they are in the text
BlockRest(t, b) ==
    SubSeq(t, LineStart(t, BlockFirst(t, b) + 1), LineEnd(t, BlockLast(t, b)))

\* s without its leading and trailing whitespace
Trim(s) ==
    LET ink == {p \in 1..Len(s) : s[p] \notin Whitespace} IN
    IF ink = {} THEN <<>>
    ELSE SubSeq(s, CHOOSE p \in ink : \A q \in ink : p <= q,
                   CHOOSE p \in ink : \A q \in ink : q <= p)

LoopOver == pc \in {"batch_update", "share", "done"}

TextKnown == pc \notin {"generate", "create_presentation", "add_slides"}

CountCalls(op) == Cardinality({k \in 1..Len(calls) : calls[k].op = op})

AllBlocksHaveTwoLines(t) == \A b \in 1..NumBlocks(t) : BlockSize(t, b) >= 2

\* every line that is not a separating blank line has something written on it
NoBlankLineInBlocks(t) ==
    \A k \in 1..NumLines(t) : IsSeparator(t, k) \/ Trim(Line(t, k)) # <<>>

----------------------------------------------------------------------------
(* C1 *)

\* C1 as stated: when the raw text is made of N blank-line-separated blocks
\* of at least 2 (non-blank) lines each, add_slides creates exactly N slides,
\* in block order, the title being the block's first line and the bullet
\* body the remaining lines joined by line breaks.
C1_AsStated ==
    (LoopOver /\ AllBlocksHaveTwoLines(slides_content)
              /\ NoBlankLineInBlocks(slides_content)) =>
        /\ Len(processed) = NumBlocks(slides_content)
        /\ CountCalls("create_slide") = NumBlocks(slides_content)
        /\ \A b \in 1..Len(processed) :
            /\ processed[b].block = b
            /\ processed[b].title = Line(slides_content, BlockFirst(slides_content, b))
            /\ processed[b].body = BlockRest(slides_content, b)

\* C1 amended: for a raw text that, once its leading and trailing
\* whitespace is removed, is made of N blank-line-separated blocks of at
\* least 2 lines each, add_slides creates exactly N slides, in block order;
\* the title is the block's first line without its leading and trailing
\* whitespace, and the bullet body is the remaining lines joined by line
\* breaks.
C1_Amended ==
    LET t == Trim(slides_content) IN
    (LoopOver /\ AllBlocksHaveTwoLines(t)) =>
        /\ Len(processed) = NumBlocks(t)
        /\ CountCalls("create_slide") = NumBlocks(t)
        /\ \A b \in 1..Len(processed) :
            /\ processed[b].block = b
            /\ processed[b].title = Trim(Line(t, BlockFirst(t, b)))
            /\ processed[b].body = BlockRest(t, b)

C1_Witness ==
    /\ pc = "done"
    /\ AllBlocksHaveTwoLines(slides_content)
    /\ NumBlocks(slides_content) = 2
    /\ Len(processed) = 2
    /\ processed[2].title # Line(slides_content, BlockFirst(slides_content, 2))

----------------------------------------------------------------------------
(* C2 *)

BlocksTaken(t) ==
    {b \in 1..i : b < i \/ (b = i /\ pc # "create_slide")}

\* C2: a block with exactly 1 line is excluded: no slide is created for it,
\* no page-element read and no image search is issued for it and no
\* operation is appended for it, while every block of at least 2 lines that
\* the loop has taken is processed.  Blocks are those of the text without
\* its outer whitespace.
C2_OneLineBlockExcluded ==
    TextKnown =>
        LET t == Trim(slides_content)
            n == NumBlocks(t)
            ones == {b \in 1..n : BlockSize(t, b) = 1}
            kept == {b \in 1..n : b \notin ones /\ BlockSize(t, b) >= 2}
        IN
        /\ \A k \in 1..Len(processed) : processed[k].block \notin ones
        /\ \A k \in 1..Len(origin) : origin[k][1] \notin ones
        /\ \A b \in BlocksTaken(t) \cap kept :
            \E k \in 1..Len(processed) : processed[k].block = b
        /\ LoopOver =>
            /\ CountCalls("create_slide") = Cardinality(kept)
            /\ CountCalls("get_page") = Cardinality(kept)
            /\ CountCalls("search") = Cardinality(kept)
            /\ Len(slides) = n

C2_Witness ==
    /\ pc = "done"
    /\ LET t == Trim(slides_content) IN
        /\ NumBlocks(t) = 2
        /\ BlockSize(t, 1) = 1
        /\ BlockSize(t, 2) >= 2
    /\ Len(processed) = 1
    /\ processed[1].block = 2

----------------------------------------------------------------------------
(* C3 *)

AcceptedScheme(link) ==
    /\ Len(link) >= 4
    /\ link[1] = "h" /\ link[2] = "t" /\ link[3] = "t" /\ link[4] = "p"

UsableResponse(resp) ==
    /\ resp.status = 200
    /\ resp.json
    /\ resp.has_items
    /\ ~resp.items_null
    /\ resp.items # <<>>
    /\ resp.items[1].has_link
    /\ AcceptedScheme(resp.items[1].link)

LastCall == calls[Len(calls)]

\* C3: on a received search response fetch_image_url does not raise (the run
\* goes on) and returns the first result's link exactly when the status is
\* a success, the result list is non-empty and the link starts with the
\* accepted scheme prefix; otherwise it returns None.
C3_AsStated ==
    response # NoResponse =>
        /\ pc # "crashed" =>
               image_url = IF UsableResponse(response)
                           THEN response.items[1].link ELSE NoneStr
        /\ (LastCall.op = "search" /\ LastCall.outcome # "raised") => pc # "crashed"

----------------
(* C4 *)

\* the elements of the k-th page read
PageElems(k) ==
    IF pages[k].has_elements /\ ~pages[k].elements_null
    THEN pages[k].elements ELSE <<>>

IsPlaceholder(el, type) == el.shape = "placeholder" /\ el.type = type

HasPlaceholder(k, type) ==
    \E e \in 1..Len(PageElems(k)) : IsPlaceholder(PageElems(k)[e], type)

\* text insertions queued for the k-th created slide that target one of its
\* placeholders of the given type
TextOps(k, type) ==
    {j \in 1..Len(requests) :
        /\ requests[j].op = "insertText"
        /\ requests[j].objectId[1] = processed[k].slide
        /\ \E e \in 1..Len(PageElems(k)) :
               /\ IsPlaceholder(PageElems(k)[e], type)
               /\ PageElems(k)[e].has_id
               /\ PageElems(k)[e].objectId = requests[j].objectId}

SlideTextOps(k) ==
    {j \in 1..Len(requests) :
        /\ requests[j].op = "insertText"
        /\ requests[j].objectId[1] = processed[k].slide}

\* C4: for every slide whose page elements were read, a title insertion is
\* queued iff a title placeholder is among them and a body insertion iff a
\* body placeholder is; they carry the slide's title and bullet body, no
\* other text insertion is queued for the slide, reading the page that was
\* returned raises nothing, and the committed batch is the queued list.
C4_AsStated ==
    /\ \A k \in 1..Len(pages) :
        /\ (TextOps(k, "TITLE") # {}) <=> HasPlaceholder(k, "TITLE")
        /\ (TextOps(k, "BODY") # {}) <=> HasPlaceholder(k, "BODY")
        /\ \A j \in TextOps(k, "TITLE") : requests[j].text = processed[k].title
        /\ \A j \in TextOps(k, "BODY") : requests[j].text = processed[k].body
        /\ Cardinality(SlideTextOps(k)) =
               (IF HasPlaceholder(k, "TITLE") THEN 1 ELSE 0)
               + (IF HasPlaceholder(k, "BODY") THEN 1 ELSE 0)
    /\ (calls # <<>> /\ LastCall.op = "get_page" /\ LastCall.outcome # "raised")
           => pc = "search"
    /\ rApplied # <<>> => rApplied = requests

----------------------------------------------------------------------------
(* C5 *)

AddSlidesReturned ==
    \/ pc \in {"share", "done"}
    \/ (pc = "crashed" /\ LastCall.op = "share")

\* C5: when no operation was accumulated, no batched update of text or
\* image operations is issued, nothing is applied to the deck, and add_slides
\* reports that there is no content to add.
C5_NoUpdateWhenEmpty ==
    requests = <<>> =>
        /\ CountCalls("batch_update") = 0
        /\ rApplied = <<>>
        /\ pc # "batch_update"
        /\ AddSlidesReturned => report = "no_content"

C5_Witness ==
    /\ pc = "done"
    /\ requests = <<>>
    /\ Len(processed) = 2
    /\ report = "no_content"
    /\ CountCalls("batch_update") = 0

----------------------------------------------------------------------------
(* C6 *)

FieldRank(f) == CASE f = "title" -> 1 [] f = "body" -> 2 [] f = "image" -> 3

EntryOfBlock(b) == CHOOSE k \in 1..Len(processed) : processed[k].block = b

\* the pending list is in accumulation order: by block, then title, body, image
InAccumulationOrder ==
    /\ Len(origin) = Len(requests)
    /\ \A j \in 1..Len(origin) : \A m \in 1..Len(origin) : j < m =>
        \/ origin[j][1] < origin[m][1]
        \/ (origin[j][1] = origin[m][1] /\ FieldRank(origin[j][2]) < FieldRank(origin[m][2]))
    /\ \A j \in 1..Len(origin) :
        LET k == EntryOfBlock(origin[j][1]) IN
        CASE origin[j][2] = "title" ->
                 requests[j] = InsertText(requests[j].objectId, processed[k].title)
                 /\ j \in TextOps(k, "TITLE")
          [] origin[j][2] = "body" ->
                 requests[j] = InsertText(requests[j].objectId, processed[k].body)
                 /\ j \in TextOps(k, "BODY")
          [] origin[j][2] = "image" ->
                 requests[j].op = "createImage"

BatchCalls == {k \in 1..Len(calls) : calls[k].op = "batch_update"}

\* C6: text and image operations reach the deck only through one batched
\* update, issued after the loop has taken every block and carrying the whole
\* pending list in accumulation order; a run that ends with operations
\* accumulated has issued exactly that one call.
C6_OneBatchAfterLastSlide ==
    /\ InAccumulationOrder
    /\ Cardinality(BatchCalls) <= 1
    /\ \A k \in BatchCalls :
        /\ i = Len(slides)
        /\ \A m \in 1..Len(calls) :
               calls[m].op \in {"create_slide", "get_page", "search"} => m < k
        /\ CountCalls("search") = Len(processed)
        /\ calls[k].outcome = "ok" => (calls[k].arg = requests /\ rApplied = requests)
        /\ calls[k].outcome # "ok" => rApplied = <<>>
    /\ BatchCalls = {} => rApplied = <<>>
    /\ (pc = "done" /\ requests # <<>>) =>
           (Cardinality(BatchCalls) = 1 /\ rApplied = requests /\ report = "slides_added")

C6_Witness ==
    /\ pc = "done"
    /\ Len(processed) = 2
    /\ Len(requests) = 6
    /\ rApplied = requests
    /\ Cardinality(BatchCalls) = 1

----------------------------------------------------------------------------
(* C7 *)

\* C7 as stated: a failure of any remote call, the image search included,
\* whether the call raises or answers with an error status, ends the run:
\* no remote call follows a failed one.
C7_AsStated ==
    \A k \in 1..Len(calls) : calls[k].outcome # "ok" => k = Len(calls)

\* C7 amended: a remote call that raises (a transport failure of any call,
\* an API error of the completion, presentation or sharing call) is not
\* recovered or retried: the run ends at that call and no remote call
\* follows it.  An image search answered with an error status does not end
\* the run: it yields no image and the run goes on.  (A reply the code
\* cannot read makes it raise where it reads it, and ends the run too: at
\* the call, or, for a completion whose content is null, at the start of
\* add_slides, after the presentation was created.)
C7_Amended ==
    /\ \A k \in 1..Len(calls) :
        calls[k].outcome \in {"raised", "unreadable"}
            => (k = Len(calls) /\ pc = "crashed")
    /\ pc = "crashed" =>
           /\ calls # <<>>
           /\ \/ LastCall.outcome \in {"raised", "unreadable"}
              \/ (slides_content = NoneStr /\ LastCall.op = "create_presentation")
    /\ (calls # <<>> /\ LastCall.op = "search" /\ LastCall.outcome = "error_status")
           => (pc # "crashed" /\ image_url = NoneStr)

C7_Witness ==
    /\ pc = "crashed"
    /\ LastCall.op = "create_slide"
    /\ \E k \in 1..Len(calls) :
           calls[k].op = "search" /\ calls[k].outcome = "error_status"

----------------------------------------------------------------------------
(* C8 *)

LoopOps == {"create_slide", "get_page", "search"}

NothingAppliedNorShared ==
    /\ rPresentation # ""
    /\ rPresentation = presentation_id
    /\ Len(rSlides) = Len(processed)
    /\ \A k \in 1..Len(processed) : rSlides[k] = processed[k].slide
    /\ rApplied = <<>>
    /\ rPermissions = {}
    /\ CountCalls("share") = 0

\* C8 as stated: once a remote call has failed while add_slides was
\* processing a slide (raised, or answered with an error status), the
\* presentation and the slides created remain, no accumulated operation is
\* ever applied and the presentation is never shared.
C8_AsStated ==
    (\E k \in 1..Len(calls) : calls[k].op \in LoopOps /\ calls[k].outcome # "ok")
        => NothingAppliedNorShared

\* C8 amended: once a remote call has raised while add_slides was processing
\* a slide, the run is over: the presentation and the slides created remain,
\* no accumulated operation is ever applied and the presentation is never
\* shared.  (An image search answered with an error status is not such a
\* failure: the run goes on, commits and shares.  A reply of the create-slide,
\* page-element or search call that the code cannot read makes it raise and
\* counts as raising.)
C8_Amended ==
    (\E k \in 1..Len(calls) :
        calls[k].op \in LoopOps /\ calls[k].outcome \in {"raised", "unreadable"})
        => (NothingAppliedNorShared /\ pc = "crashed")

C8_Witness ==
    /\ pc = "crashed"
    /\ LastCall.op = "search"
    /\ Len(processed) = 2
    /\ Len(rSlides) = 2
    /\ Len(requests) >= 3
    /\ rApplied = <<>>
    /\ rPermissions = {}

----------------------------------------------------------------------------
(* C9 *)

ShareCalls == {k \in 1..Len(calls) : calls[k].op = "share"}

\* C9: the permission grant (anyone, writer) is issued at most once, on the
\* identifier create_presentation returned, and only after add_slides has
\* finished, that is after the batched update or after the no-content
\* report; a run that ends normally has issued it exactly once, also when no
\* content was added.
C9_SharedOnceAfterAddSlides ==
    /\ Cardinality(ShareCalls) <= 1
    /\ \A k \in ShareCalls :
        /\ k = Len(calls)
        /\ calls[k].arg \in {"raised", rPresentation}
        /\ rPresentation # ""
        /\ i = Len(slides)
        /\ \/ (report = "slides_added" /\ calls[k - 1].op = "batch_update"
                                       /\ calls[k - 1].outcome = "ok")
           \/ (report = "no_content" /\ requests = <<>> /\ BatchCalls = {})
    /\ rPermissions \subseteq {[file |-> rPresentation, permission |-> [type |-> "anyone", role |-> "writer"]]}
    /\ rPermissions # {} => (ShareCalls # {} /\ pc = "done")
    /\ pc = "done" => (Cardinality(ShareCalls) = 1 /\ rPermissions # {})

C9_Witness ==
    /\ pc = "done"
    /\ report = "no_content"
    /\ Len(processed) = 1
    /\ rPermissions = {[file |-> "p1", permission |-> [type |-> "anyone", role |-> "writer"]]}

----------------------------------------------------------------------------
(* C10 *)

\* C10: every pending or committed operation is bound to the slide created
\* for the block it came from: a text insertion targets a placeholder that
\* was read from that slide's page elements and carries that block's title
\* or body, an image insertion names that slide as its page, and distinct
\* blocks have distinct slides.
C10_OpsBoundToOwnSlide ==
    /\ Len(origin) = Len(requests)
    /\ \A a \in 1..Len(processed) : \A b \in 1..Len(processed) :
           a # b => (processed[a].slide # processed[b].slide
                     /\ processed[a].block # processed[b].block)
    /\ \A j \in 1..Len(requests) :
        /\ \E k \in 1..Len(processed) : processed[k].block = origin[j][1]
        /\ LET k == EntryOfBlock(origin[j][1]) IN
           /\ rSlides[k] = processed[k].slide
           /\ IF requests[j].op = "insertText"
              THEN /\ requests[j].objectId[1] = processed[k].slide
                   /\ k <= Len(pages)
                   /\ \E e \in 1..Len(PageElems(k)) :
                          /\ PageElems(k)[e].has_id
                          /\ PageElems(k)[e].objectId = requests[j].objectId
                          /\ PlaceholderType(PageElems(k)[e]) \in {"TITLE", "BODY"}
                   /\ requests[j].text \in {processed[k].title, processed[k].body}
              ELSE requests[j].pageObjectId = processed[k].slide
    /\ \A j \in 1..Len(rApplied) : rApplied[j] = requests[j]

C10_Witness ==
    /\ pc = "done"
    /\ Len(processed) = 2
    /\ processed[1].block = 1
    /\ processed[2].block = 2
    /\ \E j \in 1..Len(rApplied) :
           rApplied[j].op = "createImage" /\ rApplied[j].pageObjectId = processed[2].slide
    /\ \E j \in 1..Len(rApplied) :
           rApplied[j].op = "insertText" /\ rApplied[j].objectId[1] = processed[2].slide

============================================================================
